---- MODULE Spec2Model ----
(***************************************************************************)
(* Model of the benchmark timeline kept by AtlasBenchmarkCollector         *)
(* (scripts/atlas_benchmark_collector.py): the persisted timeline file and *)
(* the operations that rewrite it (collect in its three modes, remove,     *)
(* clean, init, clean-all).                                                *)
(*                                                                         *)
(* Strings the code searches in (optimization names, git commit tags) are  *)
(* sequences of one-character strings, so that lower() and the `in`        *)
(* substring test are computed as the code computes them.  List indices    *)
(* are 0-based as in the source.                                           *)
(***************************************************************************)
EXTENDS Integers, Sequences, FiniteSets, TLC

VARIABLES timeline, file_exists, clock, last

vars == <<timeline, file_exists, clock, last>>

\* ------------------------------------------------------------------ bounds
\* number of entries ever created (datetime.now() takes the values 1..MaxClock)
MaxClock == 3

\* ----------------------------------------------------------------- strings
Name_opt1 == <<"o", "p", "t", "1">>
Name_BaseLine2 == <<"B", "a", "s", "e", "L", "i", "n", "e", "2">>
Names == {Name_opt1, Name_BaseLine2}

Commit_clean == <<"a", "1">>
Commit_dirty == <<"a", "1", "-", "d", "i", "r", "t", "y">>
Commits == {Commit_clean, Commit_dirty}

BaselineWord == <<"b", "a", "s", "e", "l", "i", "n", "e">>
DirtyMarker == <<"-", "d", "i", "r", "t", "y">>

Modes == {"optimization", "baseline", "update_baseline"}
Responses == {"y", "n", "eof"}
Benchmarks == {"missing", "no_zoom", "ok"}

\* str.lower() on one character (B and L are the capitals that occur in Names)
LowerChar(c) ==
    CASE c = "B" -> "b"
      [] c = "L" -> "l"
      [] OTHER -> c

\* str.lower()
Lower(s) == [i \in 1..Len(s) |-> LowerChar(s[i])]

\* needle in hay
Contains(needle, hay) ==
    \E i \in 0..(Len(hay) - Len(needle)) :
        SubSeq(hay, i + 1, i + Len(needle)) = needle

\* ------------------------------------------------------------ list helpers
\* list.pop(i) for -len <= i < len: a negative i counts from the end
Pop(tl, i) ==
    LET at == IF i < 0 THEN Len(tl) + i ELSE i
    IN  [k \in 1..(Len(tl) - 1) |-> IF k <= at THEN tl[k] ELSE tl[k + 1]]

\* list.insert(0, e)
InsertFront(tl, e) == <<e>> \o tl

RECURSIVE InsertDesc(_, _)
InsertDesc(x, s) ==
    IF s = <<>> THEN <<x>>
    ELSE IF x >= Head(s) THEN <<x>> \o s
    ELSE <<Head(s)>> \o InsertDesc(x, Tail(s))

\* sorted(indices, reverse=True)
RECURSIVE SortedReverse(_)
SortedReverse(s) ==
    IF s = <<>> THEN <<>> ELSE InsertDesc(Head(s), SortedReverse(Tail(s)))

\* for i in order: timeline.pop(i); ok is FALSE when a pop raises IndexError
RECURSIVE PopEach(_, _)
PopEach(tl, order) ==
    IF order = <<>> THEN [ok |-> TRUE, tl |-> tl]
    ELSE IF Head(order) < -Len(tl) \/ Head(order) >= Len(tl) THEN [ok |-> FALSE, tl |-> tl]
    ELSE PopEach(Pop(tl, Head(order)), Tail(order))

\* ------------------------------------------------------------------- state
NoOp == [op |-> "none", mode |-> "none", name |-> <<>>, indices |-> <<>>,
         outcome |-> "none", backup |-> FALSE, replaced |-> 0, confirmed |-> FALSE]

\* _load_timeline: the file's content, [] when there is no file
LoadTimeline == IF file_exists THEN timeline ELSE <<>>

\* --------------------------------------------------------------- baselines
\* entry.get("mode") == "baseline" or "baseline" in entry.get("optimization", "").lower()
IsBaselineEntry(entry) ==
    entry.mode = "baseline" \/ Contains(BaselineWord, Lower(entry.optimization))

\* the baseline_indices loop of _handle_baseline_mode, from index i on
RECURSIVE BaselineIndicesFrom(_, _)
BaselineIndicesFrom(tl, i) ==
    IF i >= Len(tl) THEN <<>>
    ELSE IF IsBaselineEntry(tl[i + 1]) THEN <<i>> \o BaselineIndicesFrom(tl, i + 1)
    ELSE BaselineIndicesFrom(tl, i + 1)

BaselineIndices(tl) == BaselineIndicesFrom(tl, 0)

\* mutant: the existing baselines are not removed
HandleBaselineMode_KeepOld(tl, entry) == InsertFront(tl, entry)

\* mutant: the new baseline is appended instead of inserted at index 0
HandleBaselineMode_AtEnd(tl, entry) ==
    Append(PopEach(tl, SortedReverse(BaselineIndices(tl))).tl, entry)

\* mutant: only the first existing baseline is removed
HandleBaselineMode_FirstOnly(tl, entry) ==
    IF BaselineIndices(tl) = <<>> THEN InsertFront(tl, entry)
    ELSE InsertFront(Pop(tl, Head(BaselineIndices(tl))), entry)

\* _handle_baseline_mode: pop every baseline (reverse order), insert at 0
HandleBaselineMode(tl, entry) ==
    InsertFront(PopEach(tl, SortedReverse(BaselineIndices(tl))).tl, entry)

\* the search loop of _handle_update_baseline_mode from index i on (with break)
RECURSIVE FirstBaselineFrom(_, _)
FirstBaselineFrom(tl, i) ==
    IF i >= Len(tl) THEN 0
    ELSE IF IsBaselineEntry(tl[i + 1]) THEN i
    ELSE FirstBaselineFrom(tl, i + 1)

\* mutant: the search loop without its break (the last match wins)
BaselineIndex_NoBreak(tl) ==
    IF BaselineIndices(tl) = <<>> THEN 0
    ELSE BaselineIndices(tl)[Len(BaselineIndices(tl))]

\* baseline_index of _handle_update_baseline_mode
BaselineIndex(tl) == FirstBaselineFrom(tl, 0)

\* _handle_update_baseline_mode: replace in place, append when empty
HandleUpdateBaselineMode(tl, entry) ==
    IF tl /= <<>> THEN [tl EXCEPT ![BaselineIndex(tl) + 1] = entry]
    ELSE Append(tl, entry)

\* mutant: optimization mode puts the entry first
ResolveInsertion_Prepend(tl, entry, mode) ==
    IF mode = "baseline" THEN HandleBaselineMode(tl, entry)
    ELSE IF mode = "update_baseline" THEN HandleUpdateBaselineMode(tl, entry)
    ELSE InsertFront(tl, entry)

\* the mode dispatch of collect_benchmark_result
ResolveInsertion(tl, entry, mode) ==
    IF mode = "baseline" THEN HandleBaselineMode(tl, entry)
    ELSE IF mode = "update_baseline" THEN HandleUpdateBaselineMode(tl, entry)
    ELSE Append(tl, entry)

\* ----------------------------------------------------------------- collect
\* existing_names = [entry["optimization"] ...]
ExistingNames(tl) == {tl[i].optimization : i \in 1..Len(tl)}

\* mutant: the duplicate check is skipped
DuplicateName_Never(tl, name) == FALSE

\* optimization_name in existing_names
DuplicateName(tl, name) == name \in ExistingNames(tl)

\* the timeline_entry dict (fields the timeline operations read)
TimelineEntry(now, name, mode, git_commit) ==
    [timestamp |-> now, optimization |-> name, mode |-> mode, git_commit |-> git_commit]

\* what one call of an operation reported: the operation, its arguments where
\* the code prints them, how it ended, and what it printed on the way
Report(op, mode, name, indices, outcome, backup, replaced, confirmed) ==
    [op |-> op, mode |-> mode, name |-> name, indices |-> indices, outcome |-> outcome,
     backup |-> backup, replaced |-> replaced, confirmed |-> confirmed]

\* a call of collect_benchmark_result that returns {} or raises before the save
CollectFails(outcome, name) ==
    /\ UNCHANGED <<timeline, file_exists, clock>>
    /\ last' = Report("collect", "none", name, <<>>, outcome, FALSE, 0, FALSE)

\* lines 136-163: build the entry, resolve the insertion, save the timeline
CollectSaves(name, mode, git_commit) ==
    LET tl == LoadTimeline
        entry == TimelineEntry(clock + 1, name, mode, git_commit)
    IN  /\ timeline' = ResolveInsertion(tl, entry, mode)
        /\ file_exists' = TRUE
        /\ clock' = clock + 1
        /\ last' = Report("collect", mode, name, <<>>, "ok", mode = "update_baseline",
                          IF mode = "baseline" THEN Len(BaselineIndices(tl)) ELSE 0,
                          DuplicateName(tl, name))

\* lines 148-163, the mode being one of the argparse choices
CollectInMode(name, git_commit) ==
    \E mode \in Modes : CollectSaves(name, mode, git_commit)

\* lines 128-146: the benchmark file is read after both prompts; without the zoom
\* test zoom_metrics has no "profile_metrics" key and line 143 raises KeyError
CollectAfterPrompts(name, git_commit) ==
    \E bench \in Benchmarks \ {"missing"} :
        IF bench = "no_zoom" THEN CollectFails("key_error", <<>>)
        ELSE CollectInMode(name, git_commit)

\* lines 114-126: the duplicate-name prompt, asked only for a duplicate name
CollectAfterDirtyCheck(git_commit) ==
    \E name \in Names :
        IF DuplicateName(LoadTimeline, name)
        THEN \E resp_dup \in Responses :
                IF resp_dup = "eof" THEN CollectFails("eof_error", name)
                ELSE IF resp_dup /= "y" THEN CollectFails("dup_cancelled", name)
                ELSE CollectAfterPrompts(name, git_commit)
        ELSE CollectAfterPrompts(name, git_commit)

\* lines 101-112: the git state and the uncommitted-changes prompt
CollectAfterFileCheck ==
    \E git_commit \in Commits, allow_dirty \in BOOLEAN :
        IF Contains(DirtyMarker, git_commit) /\ ~allow_dirty
        THEN \E resp_dirty \in Responses :
                IF resp_dirty = "eof" THEN CollectFails("eof_error", <<>>)
                ELSE IF resp_dirty /= "y" THEN CollectFails("dirty_cancelled", <<>>)
                ELSE CollectAfterDirtyCheck(git_commit)
        ELSE CollectAfterDirtyCheck(git_commit)

\* collect_benchmark_result; each input is drawn where the code first reads it
CollectBenchmarkResult ==
    /\ clock < MaxClock
    /\ \E bench_exists \in BOOLEAN :
        IF ~bench_exists THEN CollectFails("file_not_found", <<>>)
        ELSE CollectAfterFileCheck

\* ------------------------------------------------------------------ remove
\* the index lists a caller passes to remove (argparse: nargs="+", type=int)
\* one index from -1 to past the end, or two non-negative ones, equal or in
\* either order, whose sum is below MaxClock
RemoveRequests ==
    {<<i>> : i \in -1..MaxClock} \cup
    {p \in (0..(MaxClock - 1)) \X (0..(MaxClock - 1)) : p[1] + p[2] < MaxClock}

\* mutant: the validation forgets negative indices
InvalidIndices_UpperOnly(tl, indices) ==
    SelectSeq(indices, LAMBDA i : i >= Len(tl))

\* invalid_indices = [i for i in indices if i < 0 or i >= len(timeline)]
InvalidIndices(tl, indices) ==
    SelectSeq(indices, LAMBDA i : i < 0 \/ i >= Len(tl))

\* a call of remove_timeline_entries that returns or raises before the save; the
\* report carries the indices when the call got to name them as invalid or to pop
RemoveFails(op, indices, outcome, backup) ==
    /\ UNCHANGED <<timeline, file_exists, clock>>
    /\ last' = Report(op, "none", <<>>, indices, outcome, backup, 0, FALSE)

\* lines 449-458: pop in reverse sorted order, then save
RemoveConfirmed(op, indices, backup) ==
    LET popped == PopEach(LoadTimeline, SortedReverse(indices))
    IN  IF ~popped.ok THEN RemoveFails(op, indices, "index_error", backup)
        ELSE /\ timeline' = popped.tl
             /\ file_exists' = TRUE
             /\ UNCHANGED clock
             /\ last' = Report(op, "none", <<>>, indices, "ok", backup, 0, FALSE)

\* lines 425-447: the optional backup and the confirmation prompt (EOF is caught)
RemoveAfterValidation(op, indices, backup, force) ==
    IF ~force
    THEN \E resp \in Responses :
            IF resp /= "y" THEN RemoveFails(op, <<>>, "cancelled", backup)
            ELSE RemoveConfirmed(op, indices, backup)
    ELSE RemoveConfirmed(op, indices, backup)

\* remove_timeline_entries; op names the command that called it, and the backup
\* and force flags are drawn where the code first reads them
RemoveTimelineEntries(op, indices) ==
    LET tl == LoadTimeline
    IN  IF tl = <<>> THEN RemoveFails(op, <<>>, "empty", FALSE)
        ELSE IF InvalidIndices(tl, indices) /= <<>>
        THEN RemoveFails(op, indices, "invalid", FALSE)
        ELSE \E backup \in BOOLEAN, force \in BOOLEAN :
                RemoveAfterValidation(op, indices, backup, force)

Remove == \E indices \in RemoveRequests : RemoveTimelineEntries("remove", indices)

\* ------------------------------------------------------------------- clean
RECURSIVE DirtyIndicesFrom(_, _)
DirtyIndicesFrom(tl, i) ==
    IF i >= Len(tl) THEN <<>>
    ELSE IF Contains(DirtyMarker, tl[i + 1].git_commit)
         THEN <<i>> \o DirtyIndicesFrom(tl, i + 1)
    ELSE DirtyIndicesFrom(tl, i + 1)

\* mutant: the scan stops at the first dirty entry
DirtyIndices_FirstOnly(tl) ==
    IF DirtyIndicesFrom(tl, 0) = <<>> THEN <<>> ELSE <<Head(DirtyIndicesFrom(tl, 0))>>

\* the dirty_indices loop of clean_experimental_entries
DirtyIndices(tl) == DirtyIndicesFrom(tl, 0)

\* clean_experimental_entries
CleanExperimentalEntries ==
    LET tl == LoadTimeline
    IN  IF tl = <<>> THEN RemoveFails("clean", <<>>, "empty", FALSE)
        ELSE IF DirtyIndices(tl) = <<>> THEN RemoveFails("clean", <<>>, "none_found", FALSE)
        ELSE RemoveTimelineEntries("clean", DirtyIndices(tl))

\* ================================================================== claims
BaselineModeCount(tl) == Cardinality({i \in 1..Len(tl) : tl[i].mode = "baseline"})

\* the optimization names of Names that contain "baseline" in any letter case
NamesWithBaseline == {Name_BaseLine2}

\* the commit tags of Commits that carry the -dirty marker
DirtyCommits == {Commit_dirty}

ClaimedBaseline(e) == e.mode = "baseline" \/ e.optimization \in NamesWithBaseline

InInsertionOrder(tl, S) == \A i \in S, j \in S : i < j => tl[i].timestamp < tl[j].timestamp

BaselineFirst(tl) == \A i \in 1..Len(tl) : tl[i].mode = "baseline" => i = 1

\* tl without the entries whose 0-based index is in S, order kept
Without(tl, S) ==
    LET F[k \in 0..Len(tl)] ==
            IF k = 0 THEN <<>>
            ELSE IF (k - 1) \in S THEN F[k - 1] ELSE Append(F[k - 1], tl[k])
    IN  F[Len(tl)]

IndexSet(indices) == {indices[k] : k \in 1..Len(indices)}

CountName(tl, n) == Cardinality({i \in 1..Len(tl) : tl[i].optimization = n})

CollectedOk(mode) == last'.op = "collect" /\ last'.mode = mode /\ last'.outcome = "ok"

\* C1: in every state reachable from the empty timeline by collects (all three
\* modes), removals and cleans, at most one persisted entry has mode "baseline".
C1_AtMostOneBaseline == BaselineModeCount(timeline) <= 1

C1_Witness ==
    /\ last.op = "collect" /\ last.mode = "baseline" /\ last.outcome = "ok"
    /\ last.replaced >= 1
    /\ Len(timeline) >= 2
    /\ BaselineModeCount(timeline) = 1

\* C2 (as claimed): an entry with mode "baseline" is at index 0 and every other
\* entry appears in insertion order (increasing timestamp).
C2_AllOthersInInsertionOrder ==
    /\ BaselineFirst(timeline)
    /\ InInsertionOrder(timeline, {i \in 1..Len(timeline) : timeline[i].mode /= "baseline"})

\* C2 (amended): an entry with mode "baseline" is at index 0 and the entries
\* collected in optimization mode appear in insertion order among themselves;
\* entries installed by update_baseline are exempt.
C2_OptimizationsInInsertionOrder ==
    /\ BaselineFirst(timeline)
    /\ InInsertionOrder(timeline, {i \in 1..Len(timeline) : timeline[i].mode = "optimization"})

C2_Witness ==
    /\ Len(timeline) = 3
    /\ timeline[1].mode = "baseline" /\ timeline[1].timestamp = 3
    /\ timeline[2].mode = "optimization" /\ timeline[3].mode = "optimization"

\* C3: a successful collect in optimization mode is an in-order append: the
\* result is one longer, ends with the incoming entry, and its earlier
\* elements are the existing timeline, element by element.
C3_OptimizationAppends ==
    [][CollectedOk("optimization") =>
        /\ Len(timeline') = Len(timeline) + 1
        /\ timeline'[Len(timeline')].timestamp = clock'
        /\ timeline'[Len(timeline')].optimization = last'.name
        /\ timeline'[Len(timeline')].mode = "optimization"
        /\ SubSeq(timeline', 1, Len(timeline') - 1) = timeline]_vars

C3_Witness ==
    /\ last.op = "collect" /\ last.mode = "optimization" /\ last.outcome = "ok"
    /\ Len(timeline) = 3

\* C4: a successful collect in baseline mode removes every entry whose mode is
\* "baseline" or whose name contains "baseline" in any letter case, keeps the
\* rest in their order, and puts the new entry, with mode "baseline", at index 0.
C4_ReplaceBaseline ==
    [][CollectedOk("baseline") =>
        /\ timeline' /= <<>>
        /\ timeline'[1].timestamp = clock'
        /\ timeline'[1].optimization = last'.name
        /\ timeline'[1].mode = "baseline"
        /\ Tail(timeline') = SelectSeq(timeline, LAMBDA e : ~ClaimedBaseline(e))]_vars

C4_Witness ==
    /\ last.op = "collect" /\ last.mode = "baseline" /\ last.outcome = "ok"
    /\ last.replaced = 2
    /\ Len(timeline) = 1

\* C5: a successful collect in update_baseline mode on a non-empty timeline
\* replaces exactly the first baseline position (index 0 when none matches) by
\* the incoming entry and leaves the length and every other position unchanged.
C5_UpdateInPlace ==
    [][(CollectedOk("update_baseline") /\ timeline /= <<>>) =>
        LET hits == {i \in 1..Len(timeline) : ClaimedBaseline(timeline[i])}
            pos == IF hits = {} THEN 1 ELSE CHOOSE i \in hits : \A j \in hits : i <= j
        IN  /\ Len(timeline') = Len(timeline)
            /\ timeline'[pos].timestamp = clock'
            /\ timeline'[pos].optimization = last'.name
            /\ \A j \in 1..Len(timeline) : j /= pos => timeline'[j] = timeline[j]]_vars

C5_Witness ==
    /\ last.op = "collect" /\ last.mode = "update_baseline" /\ last.outcome = "ok"
    /\ Len(timeline) = 2
    /\ timeline[2].timestamp = 3
    /\ timeline[1].timestamp = 1

\* C6 (as claimed): a successful collect in update_baseline mode on an empty
\* timeline leaves exactly one entry, the incoming one, with mode "baseline".
C6_UpdateOnEmptyIsBaseline ==
    [][(CollectedOk("update_baseline") /\ timeline = <<>>) =>
        /\ Len(timeline') = 1
        /\ timeline'[1].timestamp = clock'
        /\ timeline'[1].mode = "baseline"]_vars

\* C7: a remove whose request names any index outside [0, len) changes nothing
\* in the persisted timeline, the valid indices of the request included.
C7_InvalidRemoveRejected ==
    [][(last'.op = "remove" /\
        \E k \in 1..Len(last'.indices) :
            last'.indices[k] < 0 \/ last'.indices[k] >= Len(timeline)) =>
        (timeline' = timeline /\ file_exists' = file_exists)]_vars

C7_Witness ==
    /\ last.op = "remove" /\ last.outcome = "invalid"
    /\ Len(timeline) >= 2
    /\ \E k \in 1..Len(last.indices) : last.indices[k] \in 0..(Len(timeline) - 1)

\* C8 (as claimed): a successful remove leaves exactly the entries whose
\* original index is not requested, in their order, and the length drops by
\* the number of distinct requested indices.
C8_RemoveExactlyRequested ==
    [][(last'.op = "remove" /\ last'.outcome = "ok") =>
        /\ timeline' = Without(timeline, IndexSet(last'.indices))
        /\ Len(timeline') = Len(timeline) - Cardinality(IndexSet(last'.indices))]_vars

\* C9: after a successful clean (entries removed, or none found to remove) no
\* persisted entry carries the -dirty marker and the entries without it are all
\* still there, unchanged, in their order.
C9_CleanRemovesDirtyOnly ==
    [][(last'.op = "clean" /\ last'.outcome \in {"ok", "none_found"}) =>
        /\ \A i \in 1..Len(timeline') : timeline'[i].git_commit \notin DirtyCommits
        /\ timeline' = SelectSeq(timeline, LAMBDA e : e.git_commit \notin DirtyCommits)]_vars

C9_Witness ==
    /\ last.op = "clean" /\ last.outcome = "ok"
    /\ Len(last.indices) = 2
    /\ Len(timeline) = 1

VARIABLES memory, disk, loaded

store_vars == <<memory, disk, loaded>>

MaxStored == 2
MaxStamp == 3

Name_quoted == <<"q", "\"", "\\">>
StoreNames == {Name_opt1, Name_quoted}
StoreStamps == {0, 10 * MaxStamp, 101 * MaxStamp}
StoreEntries ==
    {TimelineEntry(now, name, mode, Commit_dirty) :
        now \in StoreStamps, name \in StoreNames, mode \in {"optimization", "baseline"}}

RECURSIVE SeqsUpTo(_, _)
SeqsUpTo(S, n) ==
    IF n = 0 THEN {<<>>}
    ELSE LET shorter == SeqsUpTo(S, n - 1)
         IN  shorter \cup {Append(q, e) : q \in shorter, e \in S}

ModeChars(mode) ==
    CASE mode = "baseline" -> BaselineWord
      [] mode = "optimization" -> <<"o", "p", "t">>
      [] OTHER -> <<"u", "p", "d">>

Tok(kind, text) == [kind |-> kind, text |-> text]
Punct(kind) == Tok(kind, <<>>)

DigitChar(d) == <<"0", "1", "2", "3", "4", "5", "6", "7", "8", "9">>[d + 1]

RECURSIVE Digits(_)
Digits(n) == IF n < 10 THEN <<DigitChar(n)>> ELSE Append(Digits(n \div 10), DigitChar(n % 10))

RECURSIVE EscapeString_Raw(_)
EscapeString_Raw(chars) ==
    IF chars = <<>> THEN <<>>
    ELSE <<Head(chars)>> \o EscapeString_Raw(Tail(chars))

RECURSIVE EscapeString(_)
EscapeString(chars) ==
    IF chars = <<>> THEN <<>>
    ELSE (IF Head(chars) \in {"\"", "\\"} THEN <<"\\", Head(chars)>> ELSE <<Head(chars)>>)
            \o EscapeString(Tail(chars))

Member(key, tok) == <<Tok("str", <<key>>), Punct(":"), tok>>

DumpEntry(e) ==
    <<Punct("{")>>
        \o Member("timestamp", Tok("num", Digits(e.timestamp))) \o <<Punct(",")>>
        \o Member("optimization", Tok("str", EscapeString(e.optimization))) \o <<Punct(",")>>
        \o Member("mode", Tok("str", EscapeString(ModeChars(e.mode)))) \o <<Punct(",")>>
        \o Member("git_commit", Tok("str", EscapeString(e.git_commit)))
        \o <<Punct("}")>>

RECURSIVE DumpElements(_)
DumpElements(tl) ==
    IF tl = <<>> THEN <<>>
    ELSE IF Len(tl) = 1 THEN DumpEntry(tl[1])
    ELSE DumpEntry(tl[1]) \o <<Punct(",")>> \o DumpElements(Tail(tl))

JsonDump(tl) == <<Punct("[")>> \o DumpElements(tl) \o <<Punct("]")>>

ParseFail == [ok |-> FALSE, val |-> <<>>, next |-> 0]
Parsed(val, next) == [ok |-> TRUE, val |-> val, next |-> next]

DigitValue(c) == CHOOSE d \in 0..9 : DigitChar(d) = c

RECURSIVE ParseInt(_)
ParseInt(digits) ==
    IF Len(digits) = 1 THEN DigitValue(digits[1])
    ELSE 10 * ParseInt(SubSeq(digits, 1, Len(digits) - 1)) + DigitValue(digits[Len(digits)])

\* A backslash takes the next character literally; a bare quote or a trailing
\* backslash inside a string does not parse.
RECURSIVE UnescapeFrom(_, _)
UnescapeFrom(text, i) ==
    IF i > Len(text) THEN Parsed(<<>>, i)
    ELSE IF text[i] = "\\" THEN
        IF i = Len(text) THEN ParseFail
        ELSE LET rest == UnescapeFrom(text, i + 2)
             IN  IF rest.ok THEN Parsed(<<text[i + 1]>> \o rest.val, rest.next) ELSE ParseFail
    ELSE IF text[i] = "\"" THEN ParseFail
    ELSE LET rest == UnescapeFrom(text, i + 1)
         IN  IF rest.ok THEN Parsed(<<text[i]>> \o rest.val, rest.next) ELSE ParseFail

UnescapeString(text) == UnescapeFrom(text, 1)

\* The members of one object from position i (after its opening brace): a
\* sequence of <<key, value token>> and the position after the closing brace.
RECURSIVE ParseMembers(_, _, _)
ParseMembers(toks, i, acc) ==
    IF i + 3 > Len(toks) THEN ParseFail
    ELSE IF \/ toks[i].kind # "str"
            \/ toks[i + 1].kind # ":"
            \/ toks[i + 2].kind \notin {"str", "num"} THEN ParseFail
    ELSE LET members == Append(acc, <<toks[i].text[1], toks[i + 2]>>)
         IN  IF toks[i + 3].kind = "}" THEN Parsed(members, i + 4)
             ELSE IF toks[i + 3].kind = "," THEN ParseMembers(toks, i + 4, members)
             ELSE ParseFail

EntryKeys == {"timestamp", "optimization", "mode", "git_commit"}

Lookup(members, key) == members[CHOOSE i \in 1..Len(members) : members[i][1] = key][2]

\* The entry an object's members stand for. Only documents of the shape the
\* collector writes are decoded; no action stores a document of another shape.
DecodeEntry(members) ==
    IF {members[i][1] : i \in 1..Len(members)} # EntryKeys \/ Len(members) # Cardinality(EntryKeys)
    THEN ParseFail
    ELSE LET stamp  == Lookup(members, "timestamp")
             name   == UnescapeString(Lookup(members, "optimization").text)
             mode   == UnescapeString(Lookup(members, "mode").text)
             commit == UnescapeString(Lookup(members, "git_commit").text)
         IN  IF \/ stamp.kind # "num"
                \/ ~name.ok \/ ~mode.ok \/ ~commit.ok
                \/ ~\E m \in Modes : ModeChars(m) = mode.val
             THEN ParseFail
             ELSE Parsed([timestamp    |-> ParseInt(stamp.text),
                          optimization |-> name.val,
                          mode         |-> CHOOSE m \in Modes : ModeChars(m) = mode.val,
                          git_commit   |-> commit.val], 0)

RECURSIVE ParseElements(_, _, _)
ParseElements(toks, i, acc) ==
    IF i > Len(toks) THEN ParseFail
    ELSE IF toks[i].kind # "{" THEN ParseFail
    ELSE LET members == ParseMembers(toks, i + 1, <<>>)
             entry   == DecodeEntry(members.val)
         IN  IF ~members.ok THEN ParseFail
             ELSE IF ~entry.ok THEN ParseFail
             ELSE IF members.next > Len(toks) THEN ParseFail
             ELSE IF toks[members.next].kind = "]" THEN
                    IF members.next = Len(toks)
                    THEN Parsed(Append(acc, entry.val), members.next + 1)
                    ELSE ParseFail
             ELSE IF toks[members.next].kind = "," THEN
                    ParseElements(toks, members.next + 1, Append(acc, entry.val))
             ELSE ParseFail

JsonLoad(toks) ==
    IF Len(toks) < 2 THEN ParseFail
    ELSE IF toks[1].kind # "[" THEN ParseFail
    ELSE IF toks[2].kind = "]" THEN (IF Len(toks) = 2 THEN Parsed(<<>>, 3) ELSE ParseFail)
    ELSE ParseElements(toks, 2, <<>>)

NoLoad == [loader |-> "none", outcome |-> "none", value |-> <<>>]
Loaded(loader, outcome, value) == [loader |-> loader, outcome |-> outcome, value |-> value]

\* collect_benchmark_result, final save: the in-memory timeline is written out.
SaveTimeline ==
    /\ disk' = [state |-> "saved", text |-> JsonDump(memory)]
    /\ loaded' = NoLoad
    /\ UNCHANGED memory

\* The saved file is cut short (an interrupted write, a hand edit): what
\* remains is a proper prefix of what was written.
TruncateFile ==
    /\ disk.state = "saved"
    /\ \E k \in {0, 1, Len(disk.text) \div 2, Len(disk.text) - 1} :
        /\ k < Len(disk.text)
        /\ disk' = [state |-> "damaged", text |-> SubSeq(disk.text, 1, k)]
    /\ loaded' = NoLoad
    /\ UNCHANGED memory

FileExists == disk.state # "absent"

CollectorLoadResult ==
    IF FileExists
    THEN LET doc == JsonLoad(disk.text)
         IN  IF doc.ok THEN Loaded("collector", "ok", doc.val)
             ELSE Loaded("collector", "JSONDecodeError", <<>>)
    ELSE Loaded("collector", "ok", <<>>)

TableLoadResult ==
    IF ~FileExists THEN Loaded("table", "ok", <<>>)
    ELSE LET doc == JsonLoad(disk.text)
         IN  IF doc.ok THEN Loaded("table", "ok", doc.val)
             ELSE Loaded("table", "ok", <<>>)

ChartLoadResult ==
    IF ~FileExists THEN Loaded("chart", "ok", <<>>)
    ELSE LET doc == JsonLoad(disk.text)
         IN  IF doc.ok THEN Loaded("chart", "ok", doc.val)
             ELSE Loaded("chart", "ok", <<>>)

CollectorLoad == loaded' = CollectorLoadResult /\ UNCHANGED <<memory, disk>>
TableLoad == loaded' = TableLoadResult /\ UNCHANGED <<memory, disk>>
ChartLoad == loaded' = ChartLoadResult /\ UNCHANGED <<memory, disk>>

\* C11: whenever the timeline file exists and does not parse, a load of it
\* ends with the parse error reaching the caller; it never yields a timeline.
C11_CorruptLoadFails ==
    (loaded.loader # "none" /\ FileExists /\ ~JsonLoad(disk.text).ok) =>
        loaded.outcome = "JSONDecodeError"

\* C12: loading the file the collector has just saved gives back the saved
\* sequence: the same entries, in the same order.
C12_RoundTrip ==
    (loaded.loader # "none" /\ disk.state = "saved") =>
        (loaded.outcome = "ok" /\ loaded.value = memory)

C12_Witness ==
    /\ loaded.loader = "collector" /\ disk.state = "saved"
    /\ Len(memory) = MaxStored
    /\ memory[1].optimization = Name_quoted
    /\ memory[2].timestamp >= 100
    /\ loaded.value = memory

\* ---------------------------------------------------------------------------
\* Comparison of one metric's value against its baseline value, as the
\* tracker, the collector and the metrics table each compute it. Values are
\* non-negative integers; a percentage is kept as the exact quotient
\* num * 100 / den and compared by cross-multiplication.
\* ---------------------------------------------------------------------------
VARIABLES comparison, indicator

compare_vars == <<comparison, indicator>>

MaxValue == 120
Values == 0..MaxValue

Metric_drawSumMs == <<"d", "r", "a", "w", "S", "u", "m", "M", "s">>
Metric_drawCount == <<"d", "r", "a", "w", "C", "o", "u", "n", "t">>
MetricNames == {Metric_drawSumMs, Metric_drawCount}
SumMsSuffix == <<"S", "u", "m", "M", "s">>

TimeBandPercent == 15
NeutralBandPercent == 5
TableBandPercent == 5

EndsWith(s, suffix) ==
    /\ Len(s) >= Len(suffix)
    /\ SubSeq(s, Len(s) - Len(suffix) + 1, Len(s)) = suffix

Abs(x) == IF x < 0 THEN -x ELSE x

\* num / den: Python raises ZeroDivisionError when den is 0.
Quotient(num, den) ==
    IF den = 0 THEN [raised |-> TRUE, num |-> 0, den |-> 1]
    ELSE [raised |-> FALSE, num |-> num, den |-> den]

\* abs(q * 100) < k
AbsPercentBelow(q, k) == Abs(q.num) * 100 < k * Abs(q.den)
\* q * 100 > k and q * 100 < -k, for a positive denominator
PercentAbove(q, k) == q.num * 100 > k * q.den
PercentBelow(q, k) == q.num * 100 < k * q.den

Pending == [by |-> "none", kind |-> "none", color |-> "NONE", arrow |-> "", diff |-> 0, pct |-> <<0, 1>>]
Blank(by) == [by |-> by, kind |-> "blank", color |-> "NONE", arrow |-> "", diff |-> 0, pct |-> <<0, 1>>]
Raised(by) == [by |-> by, kind |-> "ZeroDivisionError", color |-> "NONE", arrow |-> "", diff |-> 0, pct |-> <<0, 1>>]
Change(by, color, arrow, diff, q) ==
    [by |-> by, kind |-> "change", color |-> color, arrow |-> arrow, diff |-> diff,
     pct |-> <<q.num * 100, q.den>>]
ZeroChange(by) == [by |-> by, kind |-> "zero", color |-> "GRAY", arrow |-> "", diff |-> 0, pct |-> <<0, 1>>]

TimeMetricColor_Inclusive(is_faster, q) ==
    IF is_faster
    THEN (IF Abs(q.num) * 100 <= TimeBandPercent * Abs(q.den) THEN "GRAY" ELSE "GREEN")
    ELSE (IF Abs(q.num) * 100 <= TimeBandPercent * Abs(q.den) THEN "YELLOW" ELSE "RED")

\* lines 324-339; the two branches from 15% up both give RED
TimeMetricColor(is_faster, q) ==
    IF is_faster
    THEN (IF AbsPercentBelow(q, TimeBandPercent) THEN "GRAY" ELSE "GREEN")
    ELSE (IF AbsPercentBelow(q, TimeBandPercent) THEN "YELLOW" ELSE "RED")

NeutralColor_Inclusive(q) ==
    IF Abs(q.num) * 100 <= NeutralBandPercent * Abs(q.den) THEN "GRAY" ELSE "BLUE"

NeutralColor(q) ==
    IF AbsPercentBelow(q, NeutralBandPercent) THEN "GRAY" ELSE "BLUE"

ChangeIndicator_NoEqualBranch(current, baseline, metric_name) ==
    LET abs_diff == current - baseline
        q        == Quotient(abs_diff, baseline)
    IN  IF q.raised THEN Raised("tracker")
        ELSE IF EndsWith(metric_name, SumMsSuffix)
        THEN Change("tracker", TimeMetricColor(abs_diff < 0, q),
                    IF abs_diff < 0 THEN "down" ELSE "up", abs_diff, q)
        ELSE LET color == NeutralColor(q)
             IN  Change("tracker", color,
                        IF color = "GRAY" THEN "approx" ELSE IF abs_diff > 0 THEN "up" ELSE "down",
                        abs_diff, q)

\* lines 302-354: everything after the baseline == 0 test
ChangeIndicator(current, baseline, metric_name) ==
    IF current = baseline THEN ZeroChange("tracker")
    ELSE LET abs_diff == current - baseline
             q        == Quotient(abs_diff, baseline)
         IN  IF q.raised THEN Raised("tracker")
             ELSE IF EndsWith(metric_name, SumMsSuffix)
             THEN Change("tracker", TimeMetricColor(abs_diff < 0, q),
                         IF abs_diff < 0 THEN "down" ELSE "up", abs_diff, q)
             ELSE LET color == NeutralColor(q)
                  IN  Change("tracker", color,
                             IF color = "GRAY" THEN "approx" ELSE IF abs_diff > 0 THEN "up" ELSE "down",
                             abs_diff, q)

FormatChangeIndicator(current, baseline, metric_name) ==
    IF baseline = 0 THEN Blank("tracker")
    ELSE ChangeIndicator(current, baseline, metric_name)

\* get_optimization_comparison, one metric: an improvement is recorded only
\* for a positive baseline.
CollectorImprovement(baseline_time, latest_time) ==
    IF baseline_time > 0
    THEN LET q == Quotient(baseline_time - latest_time, baseline_time)
         IN  IF q.raised THEN Raised("collector")
             ELSE Change("collector", "NONE", "", baseline_time - latest_time, q)
    ELSE Blank("collector")

FormatValueWithChange(current, baseline) ==
    IF current = 0 THEN Blank("table")
    ELSE IF baseline = 0 THEN Blank("table")
    ELSE LET q == Quotient(current - baseline, baseline)
         IN  IF q.raised THEN Raised("table")
             ELSE IF PercentAbove(q, TableBandPercent)
                  THEN Change("table", "RED", "up", current - baseline, q)
             ELSE IF PercentBelow(q, -TableBandPercent)
                  THEN Change("table", "GREEN", "down", current - baseline, q)
             ELSE Change("table", "YELLOW", "same", current - baseline, q)

\* The table's memory row for an entry after the first: the change of the
\* memory total against the first entry's total, taken as 0 when that is 0.
MemoryRowChange(total_mb, baseline_total) ==
    LET q == IF baseline_total > 0
             THEN Quotient(total_mb - baseline_total, baseline_total)
             ELSE Quotient(0, 1)
    IN  IF q.raised THEN Raised("memory_row")
        ELSE IF PercentAbove(q, TableBandPercent)
             THEN Change("memory_row", "RED", "up", total_mb - baseline_total, q)
        ELSE IF PercentBelow(q, -TableBandPercent)
             THEN Change("memory_row", "GREEN", "down", total_mb - baseline_total, q)
        ELSE Change("memory_row", "YELLOW", "same", total_mb - baseline_total, q)

TrackerFormat ==
    /\ indicator' = FormatChangeIndicator(comparison.current, comparison.baseline,
                                          comparison.metric_name)
    /\ UNCHANGED comparison

CollectorCompare ==
    /\ indicator' = CollectorImprovement(comparison.baseline, comparison.current)
    /\ UNCHANGED comparison

TableFormat ==
    /\ indicator' = FormatValueWithChange(comparison.current, comparison.baseline)
    /\ UNCHANGED comparison

TableMemoryRow ==
    /\ indicator' = MemoryRowChange(comparison.current, comparison.baseline)
    /\ UNCHANGED comparison

\* The significance class a rendered indicator stands for: gray and yellow are
\* both below the significance threshold, and nothing rendered flags nothing.
Classification(ind) ==
    CASE ind.kind = "blank" -> "NOISE"
      [] ind.kind \in {"zero", "change"} /\ ind.color \in {"GRAY", "YELLOW"} -> "NOISE"
      [] ind.kind = "change" /\ ind.color = "GREEN" -> "IMPROVED"
      [] ind.kind = "change" /\ ind.color = "RED" -> "REGRESSED"
      [] ind.kind = "change" /\ ind.color = "BLUE" -> "CHANGED"
      [] OTHER -> "NONE"

TrackerCompared(metric_name) ==
    /\ indicator.by = "tracker"
    /\ comparison.metric_name = metric_name

\* C13: for a time metric (name ending in SumMs) with a non-zero baseline the
\* tracker's classification is IMPROVED when the percent change is at most -15,
\* REGRESSED when it is at least 15, and NOISE strictly in between.
C13_TimeBands ==
    (TrackerCompared(Metric_drawSumMs) /\ comparison.baseline # 0) =>
        LET delta100 == (comparison.current - comparison.baseline) * 100
            band     == 15 * comparison.baseline
        IN  Classification(indicator) =
                IF delta100 <= -band THEN "IMPROVED"
                ELSE IF delta100 >= band THEN "REGRESSED"
                ELSE "NOISE"

C13_Witness ==
    /\ TrackerCompared(Metric_drawSumMs)
    /\ comparison.baseline = 100 /\ comparison.current = 85
    /\ Classification(indicator) = "IMPROVED"

\* C14 as stated: a value compared with itself is NOISE with a reported change
\* of zero, whatever the value and the metric kind.
C14_SelfCompareZeroDelta ==
    (indicator.by = "tracker" /\ comparison.current = comparison.baseline) =>
        (Classification(indicator) = "NOISE" /\ indicator.kind = "zero")

\* C14: a non-zero value compared with itself gives the gray zero indicator
\* (NOISE, change 0.0) for either metric kind; the value 0 compared with itself
\* gives no indicator at all, so no percent change is reported for it.
C14_SelfCompare ==
    (indicator.by = "tracker" /\ comparison.current = comparison.baseline) =>
        IF comparison.baseline = 0
        THEN indicator = Blank("tracker")
        ELSE indicator = ZeroChange("tracker")

C14_Witness ==
    /\ TrackerCompared(Metric_drawCount)
    /\ comparison.current = comparison.baseline /\ comparison.baseline = MaxValue
    /\ indicator.kind = "zero"

\* C15: with a baseline value of 0 no comparison divides by it: nothing is
\* raised, nothing is flagged and no percent change is reported, whatever the
\* candidate value.
C15_ZeroBaselineNeverDivides ==
    (indicator.by # "none" /\ comparison.baseline = 0) =>
        (indicator.kind = "blank" /\ Classification(indicator) = "NOISE")

\* C16: for a metric that is not a time metric, with a non-zero baseline, the
\* tracker's classification is NOISE when the percent change is strictly inside
\* the band from -5 to 5 and CHANGED otherwise, never IMPROVED or REGRESSED.
C16_NeutralBands ==
    (TrackerCompared(Metric_drawCount) /\ comparison.baseline # 0) =>
        LET delta100 == (comparison.current - comparison.baseline) * 100
            band     == 5 * comparison.baseline
        IN  Classification(indicator) =
                IF -band < delta100 /\ delta100 < band THEN "NOISE" ELSE "CHANGED"

C16_Witness ==
    /\ TrackerCompared(Metric_drawCount)
    /\ comparison.baseline = 100 /\ comparison.current = 95
    /\ Classification(indicator) = "CHANGED"
    /\ indicator.arrow = "down"

\* ---------------------------------------------------------------------------
\* The tracker's comparison of the runs of one optimization: the device
\* consistency check and the metrics table that follows it. Frequencies are in
\* MHz (the code holds Hz).
\* ---------------------------------------------------------------------------
VARIABLES run_data, report

device_vars == <<run_data, report>>

MaxRuns == 3

DeviceModels == {"Pixel6", "Pixel4"}
SdkLevels == {30, 33}
Frequencies == {2000, 2400, 2410, 2500}
FreqToleranceMHz == 100

Devices == [model : DeviceModels, android_sdk : SdkLevels, cpu_max_freq : Frequencies]

\* mutant: the chain tests the frequency first and the model last
DifferingField_FrequencyFirst(device, first_device) ==
    IF Abs(device.cpu_max_freq - first_device.cpu_max_freq) > FreqToleranceMHz
    THEN "cpu_max_freq"
    ELSE IF device.android_sdk # first_device.android_sdk THEN "android_sdk"
    ELSE IF device.model # first_device.model THEN "model"
    ELSE "none"

\* The difference the check records for one later run against the first, if
\* any: the first of model, SDK level and frequency that differs.
DifferingField(device, first_device) ==
    IF device.model # first_device.model THEN "model"
    ELSE IF device.android_sdk # first_device.android_sdk THEN "android_sdk"
    ELSE IF Abs(device.cpu_max_freq - first_device.cpu_max_freq) > FreqToleranceMHz
         THEN "cpu_max_freq"
    ELSE "none"

\* differences for devices[i..], i counted from 0 as enumerate does
RECURSIVE DifferencesFrom(_, _)
DifferencesFrom(devices, i) ==
    IF i >= Len(devices) THEN <<>>
    ELSE LET field == DifferingField(devices[i + 1], devices[1])
         IN  (IF field = "none" THEN <<>> ELSE <<[index |-> i, field |-> field]>>)
                \o DifferencesFrom(devices, i + 1)

CheckDeviceConsistency(devices) ==
    IF Len(devices) < 2 THEN <<>> ELSE DifferencesFrom(devices, 1)

NoReport == [outcome |-> "none", checked |-> FALSE, differences |-> <<>>]

CompareRuns_StopOnDifferences(data) ==
    IF data.devices = <<>>
    THEN [outcome |-> "no_valid_data", checked |-> FALSE, differences |-> <<>>]
    ELSE LET differences == CheckDeviceConsistency(data.devices)
         IN  [outcome     |-> IF differences # <<>> THEN "device_mismatch"
                              ELSE IF data.first_has_metrics THEN "table" ELSE "no_metrics",
              checked     |-> TRUE,
              differences |-> differences]

\* compare_optimization_runs from the loaded runs on: nothing to compare, or
\* the device check followed by the metrics table of the first run's metrics.
CompareRuns(data) ==
    IF data.devices = <<>>
    THEN [outcome |-> "no_valid_data", checked |-> FALSE, differences |-> <<>>]
    ELSE LET differences == CheckDeviceConsistency(data.devices)
         IN  [outcome     |-> IF data.first_has_metrics THEN "table" ELSE "no_metrics",
              checked     |-> TRUE,
              differences |-> differences]

CompareOptimizationRuns ==
    /\ report' = CompareRuns(run_data)
    /\ UNCHANGED run_data

\* Consistency of two device contexts as the specification defines it.
Consistent(device, first_device) ==
    /\ device.model = first_device.model
    /\ device.android_sdk = first_device.android_sdk
    /\ Abs(device.cpu_max_freq - first_device.cpu_max_freq) < 100

FlaggedIndices == {report.differences[k].index : k \in 1..Len(report.differences)}

\* C17: the device check flags a run exactly when its context is not
\* consistent with the first run's (same model, same SDK level, frequencies
\* less than 100 MHz apart), once per run and in run order.
C17_FlagsExactlyInconsistent ==
    report.checked =>
        /\ \A i \in 1..(Len(run_data.devices) - 1) :
                (i \in FlaggedIndices) <=> ~Consistent(run_data.devices[i + 1], run_data.devices[1])
        /\ Len(report.differences) = Cardinality(FlaggedIndices)

\* C18: whenever there are runs to compare, the device check completes and the
\* comparison goes on to the metrics of the first run: it prints the table, or
\* reports that the first run has no metrics, whether or not differences were
\* found.
C18_CheckIsAdvisory ==
    (report.outcome # "none" /\ run_data.devices # <<>>) =>
        /\ report.checked
        /\ report.outcome = IF run_data.first_has_metrics THEN "table" ELSE "no_metrics"

C18_Witness ==
    /\ report.outcome = "table"
    /\ Len(run_data.devices) = MaxRuns
    /\ Len(report.differences) = MaxRuns - 1

\* The field the specification's priority gives for a context known to differ.
PriorityField(device, first_device) ==
    IF device.model # first_device.model THEN "model"
    ELSE IF device.android_sdk # first_device.android_sdk THEN "android_sdk"
    ELSE "cpu_max_freq"

\* C30: the device check reports each later context at most once, in run
\* order, under the first differing field in the order model, SDK level,
\* frequency; a context of another model or SDK level is always reported, and
\* the number of reports never exceeds the number of contexts minus one.
C30_OnePerContextByPriority ==
    report.checked =>
        LET devices == run_data.devices
            differences == report.differences
        IN  /\ Len(differences) <= Len(devices) - 1
            /\ \A k \in 1..Len(differences), l \in 1..Len(differences) :
                    k < l => differences[k].index < differences[l].index
            /\ \A k \in 1..Len(differences) :
                    /\ differences[k].index \in 1..(Len(devices) - 1)
                    /\ differences[k].field =
                            PriorityField(devices[differences[k].index + 1], devices[1])
            /\ \A i \in 1..(Len(devices) - 1) :
                    (\/ devices[i + 1].model # devices[1].model
                     \/ devices[i + 1].android_sdk # devices[1].android_sdk)
                        => i \in FlaggedIndices

C30_Witness ==
    /\ report.checked
    /\ Len(run_data.devices) = MaxRuns
    /\ run_data.devices[2].model # run_data.devices[1].model
    /\ run_data.devices[2].android_sdk # run_data.devices[1].android_sdk
    /\ run_data.devices[2].cpu_max_freq = run_data.devices[1].cpu_max_freq + 500
    /\ report.differences[1] = [index |-> 1, field |-> "model"]
    /\ run_data.devices[3].model = run_data.devices[1].model
    /\ run_data.devices[3].android_sdk # run_data.devices[1].android_sdk
    /\ report.differences[2] = [index |-> 2, field |-> "android_sdk"]

\* ---------------------------------------------------------------------------
\* Extraction of the two tests' metrics from a raw benchmark result and the
\* entry the collector builds from them. A dict is a function whose domain is
\* its key set. Sampled (frame) metrics are left out of the raw result.
\* ---------------------------------------------------------------------------
VARIABLES benchmark_data, extraction

extract_vars == <<benchmark_data, extraction>>

MaxBenchmarks == 2

ZoomTest == "atlasGenerationThroughZoomInteractions"
PanTest == "atlasGenerationThroughPanInteractions"
TestNames == {ZoomTest, PanTest}

GenerateAtlasMetric == "AtlasManager.generateAtlasSumMs"
RegistryMetrics == {GenerateAtlasMetric, "PhotoLODProcessor.scaleBitmapSumMs"}
MemoryMetrics == {"memoryHeapSizeMaxKb"}
RawMetricNames == RegistryMetrics \cup MemoryMetrics
Medians == {1, 2}

EmptyDict == [k \in {} |-> 0]

\* the metric maps a raw test can carry: any subset of the names, with medians
RawMetricMaps == UNION {[keys -> Medians] : keys \in SUBSET RawMetricNames}
RawBenchmarks == [name : TestNames, metrics : RawMetricMaps]

ExtractTestMetrics_SkipAbsent(data, test_name) ==
    LET matches == {i \in 1..Len(data) : data[i].name = test_name}
    IN  IF matches = {}
        THEN [found |-> FALSE, atlas_metrics |-> EmptyDict,
              frame_metrics |-> EmptyDict, memory_metrics |-> EmptyDict]
        ELSE LET test_result == data[CHOOSE i \in matches : \A j \in matches : i <= j]
             IN  [found |-> TRUE,
                  profile_metrics |->
                      [m \in RegistryMetrics \cap DOMAIN test_result.metrics |->
                          test_result.metrics[m]],
                  frame_metrics |-> EmptyDict,
                  memory_metrics |->
                      [m \in MemoryMetrics \cap DOMAIN test_result.metrics |->
                          test_result.metrics[m]]]

ExtractTestMetrics(data, test_name) ==
    LET matches == {i \in 1..Len(data) : data[i].name = test_name}
    IN  IF matches = {}
        THEN [found |-> FALSE, atlas_metrics |-> EmptyDict,
              frame_metrics |-> EmptyDict, memory_metrics |-> EmptyDict]
        ELSE LET test_result == data[CHOOSE i \in matches : \A j \in matches : i <= j]
             IN  [found |-> TRUE,
                  profile_metrics |->
                      [m \in RegistryMetrics |->
                          IF m \in DOMAIN test_result.metrics
                          THEN test_result.metrics[m] ELSE 0],
                  frame_metrics |-> EmptyDict,
                  memory_metrics |->
                      [m \in MemoryMetrics \cap DOMAIN test_result.metrics |->
                          test_result.metrics[m]]]

NoExtraction ==
    [outcome |-> "none", zoom_test |-> EmptyDict, pan_test |-> EmptyDict,
     total_optimization_time |-> 0]

\* collect_benchmark_result, lines 131-146: both extractions, then the entry,
\* whose total reads zoom_metrics["profile_metrics"].
BuildEntry(data) ==
    LET zoom_metrics == ExtractTestMetrics(data, ZoomTest)
        pan_metrics  == ExtractTestMetrics(data, PanTest)
    IN  IF "profile_metrics" \notin DOMAIN zoom_metrics
        THEN [outcome |-> "KeyError", zoom_test |-> zoom_metrics, pan_test |-> pan_metrics,
              total_optimization_time |-> 0]
        ELSE [outcome |-> "saved", zoom_test |-> zoom_metrics, pan_test |-> pan_metrics,
              total_optimization_time |->
                  IF GenerateAtlasMetric \in DOMAIN zoom_metrics.profile_metrics
                  THEN zoom_metrics.profile_metrics[GenerateAtlasMetric] ELSE 0]

CollectExtraction ==
    /\ extraction' = BuildEntry(benchmark_data)
    /\ UNCHANGED benchmark_data

HasTest(test_name) == \E i \in 1..Len(benchmark_data) : benchmark_data[i].name = test_name
FirstTest(test_name) ==
    benchmark_data[CHOOSE i \in 1..Len(benchmark_data) :
        /\ benchmark_data[i].name = test_name
        /\ \A j \in 1..(i - 1) : benchmark_data[j].name # test_name]

NotFoundSnapshot(snapshot) ==
    /\ snapshot.found = FALSE
    /\ \A key \in DOMAIN snapshot \ {"found"} : DOMAIN snapshot[key] = {}

\* C19: a collect from a raw result that lacks one of the two tests still
\* completes and saves its entry, and the snapshot of each missing test has
\* found = FALSE and empty metric maps.
C19_MissingTestStillCollects ==
    (extraction.outcome # "none" /\ (~HasTest(ZoomTest) \/ ~HasTest(PanTest))) =>
        /\ extraction.outcome = "saved"
        /\ ~HasTest(ZoomTest) => NotFoundSnapshot(extraction.zoom_test)
        /\ ~HasTest(PanTest) => NotFoundSnapshot(extraction.pan_test)

FoundAsRegistry(snapshot, test_name) ==
    LET raw == FirstTest(test_name).metrics
    IN  /\ snapshot.found
        /\ DOMAIN snapshot.profile_metrics = RegistryMetrics
        /\ \A m \in RegistryMetrics :
                snapshot.profile_metrics[m] = IF m \in DOMAIN raw THEN raw[m] ELSE 0

\* C20: the scalar metric map extracted from a test that is found has exactly
\* the registry's metric names as keys, each with the raw median when the raw
\* result has that metric and 0 when it has not.
C20_ExactlyRegistryMetrics ==
    extraction.outcome # "none" =>
        /\ HasTest(ZoomTest) => FoundAsRegistry(extraction.zoom_test, ZoomTest)
        /\ HasTest(PanTest) => FoundAsRegistry(extraction.pan_test, PanTest)

C20_Witness ==
    /\ extraction.outcome = "saved"
    /\ HasTest(ZoomTest)
    /\ DOMAIN FirstTest(ZoomTest).metrics = {GenerateAtlasMetric} \cup MemoryMetrics
    /\ extraction.zoom_test.profile_metrics["PhotoLODProcessor.scaleBitmapSumMs"] = 0
    /\ extraction.total_optimization_time = 2

\* ============================================ claims C23, C25, C26 (timeline)
HasRepeat(indices) == Cardinality(IndexSet(indices)) < Len(indices)

UpdateInstalled(tl) == {i \in 1..Len(tl) : tl[i].mode = "update_baseline"}

\* C23 (as claimed): a remove, a prune, a baseline replace that drops an old
\* baseline and a baseline update never change the persisted timeline without
\* having written a backup of it first.
C23_BackupBeforeOverwrite ==
    [][(/\ timeline' /= timeline
        /\ \/ last'.op \in {"remove", "clean"}
           \/ CollectedOk("update_baseline")
           \/ CollectedOk("baseline") /\ last'.replaced > 0) => last'.backup]_vars

\* C25 (as claimed): a baseline replace that follows an update_baseline removes
\* the entry the update installed: after a successful collect in baseline mode
\* no entry installed by update_baseline is left in the timeline.
C25_ReplaceRemovesUpdated ==
    [][CollectedOk("baseline") => UpdateInstalled(timeline') = {}]_vars

\* C26 (as claimed): a remove whose in-range index list repeats an index, once
\* past validation and the prompt, succeeds and removes exactly the entries at
\* the distinct listed positions.
C26_RepeatedIndexRemovesDistinct ==
    [][(/\ last'.op = "remove"
        /\ HasRepeat(last'.indices)
        /\ last'.outcome \in {"ok", "index_error"}) =>
            /\ last'.outcome = "ok"
            /\ timeline' = Without(timeline, IndexSet(last'.indices))]_vars

\* ============================================== baseline comparison (C24)
DefaultBaselineName == BaselineWord

\* next((entry for entry in timeline if baseline_name in
\* entry["optimization"].lower()), None): 0-based index of the first match,
\* -1 for None
RECURSIVE FirstNamedFrom(_, _, _)
FirstNamedFrom(tl, baseline_name, i) ==
    IF i >= Len(tl) THEN -1
    ELSE IF Contains(baseline_name, Lower(tl[i + 1].optimization)) THEN i
    ELSE FirstNamedFrom(tl, baseline_name, i + 1)

NoReference == [error |-> TRUE, baseline |-> -1, latest |-> -1]

\* get_optimization_comparison: the 0-based indices of the entries compared
GetOptimizationComparison(tl, baseline_name) ==
    IF Len(tl) < 2 THEN NoReference
    ELSE [error |-> FALSE,
          baseline |-> IF FirstNamedFrom(tl, baseline_name, 0) = -1 THEN 0
                       ELSE FirstNamedFrom(tl, baseline_name, 0),
          latest |-> Len(tl) - 1]

\* _print_improvement_summary: timeline[0] against timeline[-1]
ImprovementSummary(tl) ==
    IF Len(tl) < 2 THEN NoReference
    ELSE [error |-> FALSE, baseline |-> 0, latest |-> Len(tl) - 1]

ModeBaselineIndices(tl) == {i \in 0..(Len(tl) - 1) : tl[i + 1].mode = "baseline"}

\* C24 (as claimed): in every reachable state whose timeline holds an entry
\* with mode "baseline" and is long enough to compare, the comparison made
\* with the default baseline selection and the improvement summary both take
\* that entry as their reference.
C24_ComparisonsUseModeBaseline ==
    (Len(timeline) >= 2 /\ ModeBaselineIndices(timeline) /= {}) =>
        /\ GetOptimizationComparison(timeline, DefaultBaselineName).baseline
                \in ModeBaselineIndices(timeline)
        /\ ImprovementSummary(timeline).baseline \in ModeBaselineIndices(timeline)

\* ================================================= table and tracker (C29)
\* C29 (as claimed): for a time metric with a non-zero baseline the table's
\* indicator (green faster, red slower, yellow similar) stands for the same
\* class as the tracker's indicator for the same pair of values.
C29_TableAgreesWithTracker ==
    (/\ indicator.by = "table"
     /\ comparison.metric_name = Metric_drawSumMs
     /\ comparison.baseline # 0) =>
        Classification(indicator) =
            Classification(FormatChangeIndicator(comparison.current, comparison.baseline,
                                                 comparison.metric_name))

\* ================================================ init and clean-all commands
\* the inner collect_benchmark_result of init_fresh_timeline returning {} or
\* raising: the timeline file was unlinked at line 539 and nothing was written
InitCollectFails(outcome, backup) ==
    /\ timeline' = <<>>
    /\ file_exists' = FALSE
    /\ UNCHANGED clock
    /\ last' = Report("init", "none", <<>>, <<>>, outcome, backup, 0, FALSE)

\* the inner collect saving the new baseline as the only entry
InitCollectSaves(baseline_name, git_commit, backup) ==
    /\ timeline' = ResolveInsertion(<<>>, TimelineEntry(clock + 1, baseline_name, "baseline",
                                                       git_commit), "baseline")
    /\ file_exists' = TRUE
    /\ clock' = clock + 1
    /\ last' = Report("init", "baseline", baseline_name, <<>>, "ok", backup, 0, FALSE)

\* the inner collect from the dirty check on; no name is a duplicate in the
\* timeline just unlinked, so the duplicate prompt is never asked
InitCollectAfterFileCheck(backup) ==
    \E git_commit \in Commits, allow_dirty \in BOOLEAN, baseline_name \in Names,
       bench \in Benchmarks \ {"missing"} :
        IF Contains(DirtyMarker, git_commit) /\ ~allow_dirty
        THEN \E resp_dirty \in Responses :
                IF resp_dirty = "eof" THEN InitCollectFails("eof_error", backup)
                ELSE IF resp_dirty /= "y" THEN InitCollectFails("dirty_cancelled", backup)
                ELSE IF bench = "no_zoom" THEN InitCollectFails("key_error", backup)
                ELSE InitCollectSaves(baseline_name, git_commit, backup)
        ELSE IF bench = "no_zoom" THEN InitCollectFails("key_error", backup)
        ELSE InitCollectSaves(baseline_name, git_commit, backup)

\* init_fresh_timeline: back up and unlink an existing timeline file, then
\* collect the new baseline
InitFreshTimeline ==
    /\ clock < MaxClock
    /\ \E bench_exists \in BOOLEAN :
        IF ~bench_exists THEN InitCollectFails("file_not_found", file_exists)
        ELSE InitCollectAfterFileCheck(file_exists)

\* a call of clean_all_timeline_data that returns before the unlink
CleanAllFails(outcome, backup) ==
    /\ UNCHANGED <<timeline, file_exists, clock>>
    /\ last' = Report("clean_all", "none", <<>>, <<>>, outcome, backup, 0, FALSE)

\* mutant: the timeline file is unlinked before the prompt is asked
CleanAllCancelled_Unlinked(backup) ==
    /\ timeline' = <<>>
    /\ file_exists' = FALSE
    /\ UNCHANGED clock
    /\ last' = Report("clean_all", "none", <<>>, <<>>, "cancelled", backup, 0, FALSE)

\* lines 580-587: an answer other than y, or no interactive input
CleanAllCancelled(backup) == CleanAllFails("cancelled", backup)

\* lines 589-592: the timeline file is unlinked
CleanAllUnlinks(backup) ==
    /\ timeline' = <<>>
    /\ file_exists' = FALSE
    /\ UNCHANGED clock
    /\ last' = Report("clean_all", "none", <<>>, <<>>, "ok", backup, 0, FALSE)

\* clean_all_timeline_data
CleanAllTimelineData ==
    IF ~file_exists THEN CleanAllFails("no_file", FALSE)
    ELSE IF LoadTimeline = <<>> THEN CleanAllFails("empty", FALSE)
    ELSE \E backup \in BOOLEAN, force \in BOOLEAN :
            IF ~force
            THEN \E resp \in Responses :
                    IF resp /= "y" THEN CleanAllCancelled(backup)
                    ELSE CleanAllUnlinks(backup)
            ELSE CleanAllUnlinks(backup)

\* C27 (as claimed): an init whose inner collection is cancelled or fails
\* leaves the persisted timeline as it was before the call.
C27_FailedInitKeepsTimeline ==
    [][(last'.op = "init" /\ last'.outcome /= "ok") =>
        (timeline' = timeline /\ file_exists' = file_exists)]_vars

CancelOutcomes == {"cancelled", "dirty_cancelled", "dup_cancelled", "eof_error"}

\* C28: a collect, remove, prune or clean-all that ends at a confirmation
\* prompt (an answer other than y, or no interactive input) leaves the
\* persisted timeline and its file exactly as they were before the call.
C28_CancelLeavesTimeline ==
    [][(/\ last'.op \in {"collect", "remove", "clean", "clean_all"}
        /\ last'.outcome \in CancelOutcomes) =>
            (timeline' = timeline /\ file_exists' = file_exists)]_vars

C28_Witness ==
    /\ last.op = "clean_all"
    /\ last.outcome = "cancelled"
    /\ file_exists
    /\ Len(timeline) = 2
    /\ timeline[1].mode = "baseline"

\* ---------------------------------------------------------------------------
\* The save seen from outside the invocation that makes it. Each invocation
\* loads the whole file, resolves its change in memory, opens the file with
\* mode 'w' (the file is empty from then on), and the buffered text reaches
\* the file when the buffer is flushed and at close, written at that
\* invocation's own file offset. Two invocations run side by side. The file
\* is `disk`, `clock` stamps the entries.
\* ---------------------------------------------------------------------------
VARIABLES invocations, last_close

write_vars == <<invocations, last_close>>

MaxOps == 2

Procs == {1, 2}

IdleInvocation == [pc |-> "idle", pre |-> <<>>, mem |-> <<>>, offset |-> 0]
NoInvocations == [p \in Procs |-> IdleInvocation]

\* open(self.timeline_file, 'w'): the file exists and is empty
OpenedFile == [state |-> "open", text |-> <<>>]

NulTok == Punct("nul")

\* write(2) of chunk at a file offset: the file keeps what lies outside the
\* chunk, and a gap past the old end reads as NUL bytes
WriteAt(text, offset, chunk) ==
    LET end == offset + Len(chunk)
        size == IF end > Len(text) THEN end ELSE Len(text)
    IN  [i \in 1..size |->
            IF i > offset /\ i <= end THEN chunk[i - offset]
            ELSE IF i <= Len(text) THEN text[i]
            ELSE NulTok]

\* the changes an invocation resolves on the timeline it loaded: a collect in
\* one of the three modes, or the removal of one entry
ResolvedChanges(tl, now) ==
    {ResolveInsertion(tl, TimelineEntry(now, name, mode, Commit_clean), mode) :
        name \in Names, mode \in Modes}
    \cup {Pop(tl, i) : i \in 0..(Len(tl) - 1)}

\* lines 148-159 and 411-451: load the timeline and resolve the change
LoadAndResolve(p) ==
    /\ invocations[p].pc = "idle"
    /\ clock < MaxOps
    /\ CollectorLoadResult.outcome = "ok"
    /\ \E mem \in ResolvedChanges(CollectorLoadResult.value, clock + 1) :
        invocations' = [invocations EXCEPT
            ![p] = [pc |-> "resolved", pre |-> CollectorLoadResult.value,
                    mem |-> mem, offset |-> 0]]
    /\ clock' = clock + 1
    /\ UNCHANGED <<disk, last_close>>

\* line 161 / 454: with open(self.timeline_file, 'w') as f
OpenForWrite(p) ==
    /\ invocations[p].pc = "resolved"
    /\ disk' = OpenedFile
    /\ invocations' = [invocations EXCEPT ![p].pc = "open", ![p].offset = 0]
    /\ UNCHANGED <<clock, last_close>>

\* line 162 / 455: json.dump fills the buffer; a full buffer is flushed to the
\* file before the rest is produced (here: the first half of the text)
FlushBuffer(p) ==
    LET text == JsonDump(invocations[p].mem)
        k == Len(text) \div 2
    IN  /\ invocations[p].pc = "open"
        /\ invocations[p].offset = 0
        /\ disk' = [state |-> "open", text |-> WriteAt(disk.text, 0, SubSeq(text, 1, k))]
        /\ invocations' = [invocations EXCEPT ![p].offset = k]
        /\ UNCHANGED <<clock, last_close>>

\* the end of the with block: the rest of the buffer is written and the file
\* closed
CloseFile(p) ==
    LET text == JsonDump(invocations[p].mem)
        from == invocations[p].offset
    IN  /\ invocations[p].pc = "open"
        /\ disk' = [state |-> "saved",
                    text |-> WriteAt(disk.text, from, SubSeq(text, from + 1, Len(text)))]
        /\ invocations' = [invocations EXCEPT ![p].pc = "idle", ![p].offset = Len(text)]
        /\ last_close' = p
        /\ UNCHANGED clock

Invoke == \E p \in Procs : LoadAndResolve(p)
Open == \E p \in Procs : OpenForWrite(p)
Flush == \E p \in Procs : FlushBuffer(p)
Close == \E p \in Procs : CloseFile(p)

\* C21 (as claimed): while one invocation alone is between its load and the
\* end of its save, what a load of the timeline file gives is the complete
\* sequence it loaded or the complete sequence it is saving.
C21_WholeSequenceAtEveryPoint ==
    \A p \in Procs :
        (/\ invocations[p].pc \in {"resolved", "open"}
         /\ \A q \in Procs \ {p} : invocations[q] = IdleInvocation) =>
            /\ CollectorLoadResult.outcome = "ok"
            /\ CollectorLoadResult.value \in {invocations[p].pre, invocations[p].mem}

\* C22 (as claimed): once two interleaved invocations have both finished, the
\* timeline file holds the full sequence saved by the one that closed last.
C22_LastWriterWins ==
    (last_close \in Procs /\ \A p \in Procs : invocations[p].pc = "idle") =>
        /\ CollectorLoadResult.outcome = "ok"
        /\ CollectorLoadResult.value = invocations[last_close].mem

\* ========================================================== specifications
\* Each specification runs one part of the program from the inputs that part
\* takes and leaves the variables of the other parts at rest.
AbsentFile == [state |-> "absent", text |-> <<>>]
NoComparison == [current |-> 0, baseline |-> 0, metric_name |-> Metric_drawSumMs]
NoRuns == [devices |-> <<>>, first_has_metrics |-> FALSE]

all_vars == <<vars, store_vars, compare_vars, device_vars, extract_vars, write_vars>>

Init ==
    /\ timeline = <<>>
    /\ file_exists = FALSE
    /\ clock = 0
    /\ last = NoOp
    /\ memory = <<>> /\ disk = AbsentFile /\ loaded = NoLoad
    /\ comparison = NoComparison /\ indicator = Pending
    /\ run_data = NoRuns /\ report = NoReport
    /\ benchmark_data = <<>> /\ extraction = NoExtraction
    /\ invocations = NoInvocations /\ last_close = 0

Next ==
    \/ CollectBenchmarkResult /\ UNCHANGED <<store_vars, compare_vars, device_vars, extract_vars, write_vars>>
    \/ Remove /\ UNCHANGED <<store_vars, compare_vars, device_vars, extract_vars, write_vars>>
    \/ CleanExperimentalEntries /\ UNCHANGED <<store_vars, compare_vars, device_vars, extract_vars, write_vars>>

Spec == Init /\ [][Next]_all_vars

\* every command of the collector, init and clean-all included
CommandNext ==
    \/ CollectBenchmarkResult /\ UNCHANGED <<store_vars, compare_vars, device_vars, extract_vars, write_vars>>
    \/ Remove /\ UNCHANGED <<store_vars, compare_vars, device_vars, extract_vars, write_vars>>
    \/ CleanExperimentalEntries /\ UNCHANGED <<store_vars, compare_vars, device_vars, extract_vars, write_vars>>
    \/ InitFreshTimeline /\ UNCHANGED <<store_vars, compare_vars, device_vars, extract_vars, write_vars>>
    \/ CleanAllTimelineData /\ UNCHANGED <<store_vars, compare_vars, device_vars, extract_vars, write_vars>>

CommandSpec == Init /\ [][CommandNext]_all_vars

StoreInit ==
    /\ memory \in SeqsUpTo(StoreEntries, MaxStored)
    /\ disk = AbsentFile
    /\ loaded = NoLoad
    /\ timeline = <<>> /\ file_exists = FALSE /\ clock = 0 /\ last = NoOp
    /\ comparison = NoComparison /\ indicator = Pending
    /\ run_data = NoRuns /\ report = NoReport
    /\ benchmark_data = <<>> /\ extraction = NoExtraction
    /\ invocations = NoInvocations /\ last_close = 0

StoreNext ==
    \/ SaveTimeline /\ UNCHANGED <<vars, compare_vars, device_vars, extract_vars, write_vars>>
    \/ TruncateFile /\ UNCHANGED <<vars, compare_vars, device_vars, extract_vars, write_vars>>
    \/ CollectorLoad /\ UNCHANGED <<vars, compare_vars, device_vars, extract_vars, write_vars>>
    \/ TableLoad /\ UNCHANGED <<vars, compare_vars, device_vars, extract_vars, write_vars>>
    \/ ChartLoad /\ UNCHANGED <<vars, compare_vars, device_vars, extract_vars, write_vars>>

StoreSpec == StoreInit /\ [][StoreNext]_all_vars

CompareInit ==
    /\ comparison \in [current : Values, baseline : Values, metric_name : MetricNames]
    /\ indicator = Pending
    /\ timeline = <<>> /\ file_exists = FALSE /\ clock = 0 /\ last = NoOp
    /\ memory = <<>> /\ disk = AbsentFile /\ loaded = NoLoad
    /\ run_data = NoRuns /\ report = NoReport
    /\ benchmark_data = <<>> /\ extraction = NoExtraction
    /\ invocations = NoInvocations /\ last_close = 0

CompareNext ==
    \/ TrackerFormat /\ UNCHANGED <<vars, store_vars, device_vars, extract_vars, write_vars>>
    \/ CollectorCompare /\ UNCHANGED <<vars, store_vars, device_vars, extract_vars, write_vars>>
    \/ TableFormat /\ UNCHANGED <<vars, store_vars, device_vars, extract_vars, write_vars>>
    \/ TableMemoryRow /\ UNCHANGED <<vars, store_vars, device_vars, extract_vars, write_vars>>

CompareSpec == CompareInit /\ [][CompareNext]_all_vars

DeviceInit ==
    /\ run_data \in [devices : SeqsUpTo(Devices, MaxRuns), first_has_metrics : BOOLEAN]
    /\ report = NoReport
    /\ timeline = <<>> /\ file_exists = FALSE /\ clock = 0 /\ last = NoOp
    /\ memory = <<>> /\ disk = AbsentFile /\ loaded = NoLoad
    /\ comparison = NoComparison /\ indicator = Pending
    /\ benchmark_data = <<>> /\ extraction = NoExtraction
    /\ invocations = NoInvocations /\ last_close = 0

DeviceNext ==
    \/ CompareOptimizationRuns /\ UNCHANGED <<vars, store_vars, compare_vars, extract_vars, write_vars>>

DeviceSpec == DeviceInit /\ [][DeviceNext]_all_vars

ExtractInit ==
    /\ benchmark_data \in SeqsUpTo(RawBenchmarks, MaxBenchmarks)
    /\ extraction = NoExtraction
    /\ timeline = <<>> /\ file_exists = FALSE /\ clock = 0 /\ last = NoOp
    /\ memory = <<>> /\ disk = AbsentFile /\ loaded = NoLoad
    /\ comparison = NoComparison /\ indicator = Pending
    /\ run_data = NoRuns /\ report = NoReport
    /\ invocations = NoInvocations /\ last_close = 0

ExtractNext ==
    \/ CollectExtraction /\ UNCHANGED <<vars, store_vars, compare_vars, device_vars, write_vars>>

ExtractSpec == ExtractInit /\ [][ExtractNext]_all_vars

\* two invocations of the collector saving side by side, from no timeline file
WriteNext ==
    \/ Invoke /\ UNCHANGED <<timeline, file_exists, last, memory, loaded, compare_vars, device_vars, extract_vars>>
    \/ Open /\ UNCHANGED <<timeline, file_exists, last, memory, loaded, compare_vars, device_vars, extract_vars>>
    \/ Flush /\ UNCHANGED <<timeline, file_exists, last, memory, loaded, compare_vars, device_vars, extract_vars>>
    \/ Close /\ UNCHANGED <<timeline, file_exists, last, memory, loaded, compare_vars, device_vars, extract_vars>>

WriteSpec == Init /\ [][WriteNext]_all_vars

====
